---- MODULE Spec2Model ----
(***************************************************************************)
(* Model of the outreach-email generation workflow of icebreaker-ai        *)
(* (src/src/tasks/generate_emails.py): the LangGraph state graph built by  *)
(* EmailGenerator._create_workflow, its six node callbacks, the routing    *)
(* callback and the wrapper EmailGenerator.generate_email.                 *)
(*                                                                         *)
(* Python values are modelled as follows.                                  *)
(*   - Optional[x]   : a record [some, v]; None is [some |-> FALSE].       *)
(*   - str           : a sequence of one-character strings (texts the      *)
(*                     backend returns) or of message tokens (errors);     *)
(*                     f"{a}: {b}" is the concatenation of the parts.      *)
(*   - a request dict: a record [kind, keys]; kind is "dict", "none" (the  *)
(*                     argument is None) or "str" (a non-empty non-dict),  *)
(*                     keys the set of keys the dict holds.                *)
(*   - an exception  : the token sequence of str(e); <<>> is "no raise".   *)
(***************************************************************************)
EXTENDS Naturals, Sequences, FiniteSets, TLC

VARIABLES pc, request, state, executed, calls, recorded, raised, result,
          fallbackOk, ext, runs, kwargs, uploads, tmpfiles, jobs

vars == <<pc, request, state, executed, calls, recorded, raised, result,
          fallbackOk, ext, runs, kwargs, uploads, tmpfiles, jobs>>

----------------------------------------------------------------------------
(* Bounds *)

\* longest text the generation backend returns in the model
MaxTextLen == 2

\* number of generate_email calls made on one EmailGenerator
NumRuns == 2

\* number of uploads sent to /parse_resume
NumUploads == 2

\* number of requests sent to /parse_job_posting
NumJobs == 2

----------------------------------------------------------------------------
(* Python values *)

None == [some |-> FALSE, v |-> <<>>]
Some(x) == [some |-> TRUE, v |-> x]

NoExc == <<>>

NoneV == [kind |-> "none", keys |-> {}]
StrV == [kind |-> "str", keys |-> {}]
Dict(ks) == [kind |-> "dict", keys |-> ks]

\* bool(v): None and {} are falsy, a non-empty dict or string is truthy
Truthy(v) == \/ v.kind = "str"
             \/ v.kind = "dict" /\ v.keys # {}

\* v.get(k, default): raises AttributeError unless v is a dict
GetExc(v) ==
    CASE v.kind = "dict" -> NoExc
      [] v.kind = "none" -> <<"'NoneType' object has no attribute 'get'">>
      [] OTHER -> <<"'str' object has no attribute 'get'">>

\* v[k]: KeyError(k) on a dict without k, TypeError on None and on a string;
\* str(KeyError(k)) is the quoted key
SubExc(v, k) ==
    CASE v.kind = "dict" -> IF k \in v.keys THEN NoExc ELSE <<"'", k, "'">>
      [] v.kind = "none" -> <<"'NoneType' object is not subscriptable">>
      [] OTHER -> <<"string indices must be integers">>

\* one evaluation step of an expression: a .get or a subscript
Get(v, k) == [op |-> "get", obj |-> v, key |-> k]
Sub(v, k) == [op |-> "sub", obj |-> v, key |-> k]
StepExc(c) == IF c.op = "get" THEN GetExc(c.obj) ELSE SubExc(c.obj, c.key)

\* the exception of the first step that raises, evaluating left to right
RECURSIVE FirstExc(_)
FirstExc(steps) ==
    IF steps = <<>> THEN NoExc
    ELSE IF StepExc(Head(steps)) # NoExc THEN StepExc(Head(steps))
    ELSE FirstExc(Tail(steps))

\* str.strip(): drop leading and trailing whitespace
RECURSIVE LStrip(_)
LStrip(t) == IF t = <<>> THEN t
             ELSE IF Head(t) = " " THEN LStrip(Tail(t)) ELSE t
RECURSIVE RStrip(_)
RStrip(t) == IF t = <<>> THEN t
             ELSE IF t[Len(t)] = " " THEN RStrip(SubSeq(t, 1, Len(t) - 1))
             ELSE t
Strip(t) == RStrip(LStrip(t))

----------------------------------------------------------------------------
(* Enumerations and inputs *)

EmailType == {"simple", "personalized", "contextual"}
Tone == {"formal", "friendly", "concise", "enthusiastic"}

\* a value of email_type that is no member of EmailType
OtherType == "other"
EmailTypeInputs == EmailType \cup {OtherType}

ReceiverInputs ==
    {NoneV, Dict({}), Dict({"email"}), Dict({"name", "email"}),
     Dict({"name", "email", "job_title"}), StrV}
SenderInputs ==
    {NoneV, Dict({}), Dict({"name"}), Dict({"name", "email"}),
     Dict({"name", "email", "phone", "technical_skills", "experience",
           "projects", "github_username"}), StrV}
JobInputs ==
    {NoneV, Dict({}), Dict({"job_title"}),
     Dict({"job_title", "company", "required_skills", "preferred_skills"}),
     StrV}

Chars == {" ", "a"}
Texts == UNION {[1..n -> Chars] : n \in 0..MaxTextLen}

\* what one invocation of the chat model yields: a raise or a content text
BackendOutcomes == {[ok |-> FALSE, content |-> <<>>]}
                   \cup {[ok |-> TRUE, content |-> t] : t \in Texts}
BackendError == <<"model invocation failed">>

----------------------------------------------------------------------------
(* EmailState and the result mapping *)

EmailState(r) ==
    [receiver_details |-> r.receiver_details,
     sender_details |-> r.sender_details,
     job_information |-> r.job_information,
     email_type |-> r.email_type,
     tone |-> r.tone,
     contextual_data |-> {},
     generated_email |-> None,
     email_subject |-> None,
     error |-> None]

NoState == EmailState([receiver_details |-> NoneV, sender_details |-> NoneV,
                       job_information |-> NoneV, email_type |-> OtherType,
                       tone |-> "friendly"])

NoRequest == [receiver_details |-> NoneV, sender_details |-> NoneV,
              job_information |-> NoneV, email_type |-> OtherType,
              tone |-> "friendly"]

ResultKeys == {"success", "email_subject", "email_body", "email_type",
               "tone", "error"}

NoResult == [keys |-> {}, success |-> FALSE, email_subject |-> None,
             email_body |-> None, email_type |-> "", tone |-> "",
             error |-> None]

\* f"{prefix}: {str(e)}"
Message(prefix, exc) == <<prefix>> \o exc

\* contextual_data is a set of <<key, value>> pairs; as a dict for subscripts
ContextDict(s) == Dict({p[1] : p \in s.contextual_data})

----------------------------------------------------------------------------
(* The graph: nodes, edges and the conditional route *)

GenerateNodes == {"generate_simple_email", "generate_personalized_email",
                  "generate_contextual_email"}

\* Edge with validate_input wired past extract_context
Edge_SkipExtract(n) ==
    CASE n = "START" -> "validate_input"
      [] n = "validate_input" -> "route"
      [] n = "extract_context" -> "route"
      [] n \in GenerateNodes -> "finalize_email"
      [] n = "finalize_email" -> "END"

\* workflow.add_edge(a, b)
Edge(n) ==
    CASE n = "START" -> "validate_input"
      [] n = "validate_input" -> "extract_context"
      [] n = "extract_context" -> "route"
      [] n \in GenerateNodes -> "finalize_email"
      [] n = "finalize_email" -> "END"

\* PathMap with the personalized entry pointing at the simple node
PathMap_Swapped(t) ==
    CASE t = "simple" -> "generate_simple_email"
      [] t = "personalized" -> "generate_simple_email"
      [] t = "contextual" -> "generate_contextual_email"

\* the path map of add_conditional_edges
PathMap(t) ==
    CASE t = "simple" -> "generate_simple_email"
      [] t = "personalized" -> "generate_personalized_email"
      [] t = "contextual" -> "generate_contextual_email"

PathKeys == {"simple", "personalized", "contextual"}

\* route_email_type with a default route for values outside EmailType
route_email_type_Default(s) ==
    IF s.email_type \in EmailType THEN s.email_type ELSE "simple"

route_email_type(s) == s.email_type

----------------------------------------------------------------------------
(* validate_input *)

required_fields == <<"receiver_details", "sender_details", "job_information">>

\* index of the first required field that is absent or falsy, 0 if none
FirstMissing(s) ==
    LET bad == {i \in 1..Len(required_fields) :
                   \/ required_fields[i] \notin DOMAIN s
                   \/ ~Truthy(s[required_fields[i]])}
    IN IF bad = {} THEN 0
       ELSE CHOOSE i \in bad : \A j \in bad : i <= j

WithDefault(s, k, d) == IF k \in DOMAIN s THEN s ELSE (k :> d) @@ s

\* a validate_input that puts an empty mapping where a required field is
\* missing
ValidateInput_FillsMissing(s) ==
    IF FirstMissing(s) # 0
    THEN [s EXCEPT ![required_fields[FirstMissing(s)]] = Dict({}),
                   !.error =
                      Some(Message("Validation error",
                                   <<"Missing required field",
                                     required_fields[FirstMissing(s)]>>))]
    ELSE s

ValidateInput(s) ==
    IF FirstMissing(s) # 0
    THEN [s EXCEPT !.error =
            Some(Message("Validation error",
                         <<"Missing required field",
                           required_fields[FirstMissing(s)]>>))]
    ELSE WithDefault(WithDefault(WithDefault(s,
            "email_type", "simple"), "tone", "friendly"),
            "contextual_data", {})

----------------------------------------------------------------------------
(* extract_context and the three lookups *)

\* the names src/utils.py defines or imports at module level
UtilsExports == {"ReceiverDetails", "SenderDetails", "SampleInputGenerator",
                 "parse_resume", "CandidateResumeData", "JobPostingParser",
                 "create_job_info_from_parsed_data", "gemini_client",
                 "logger"}

\* from ..utils import name
ImportExc(name) == IF name \in UtilsExports THEN NoExc
                   ELSE <<"cannot import name", name>>

\* d.get(k, default) as a value: what the dict holds, else the default
GetVal(v, k) == IF k \in v.keys THEN "given" ELSE "default"

\* each lookup yields [exc, value, called]; exc is what escapes the coroutine,
\* called tells whether it reached its external call
fetch_github_data(s, ok) ==
    IF ImportExc("GitHubAPI") # NoExc
    THEN [exc |-> ImportExc("GitHubAPI"), value |-> "none", called |-> FALSE]
    ELSE IF GetExc(s.sender_details) # NoExc
            \/ "github_username" \notin s.sender_details.keys
         THEN [exc |-> NoExc, value |-> "empty_default", called |-> FALSE]
         ELSE IF ~ok
         THEN [exc |-> NoExc, value |-> "empty_default", called |-> TRUE]
         ELSE [exc |-> NoExc, value |-> "fetched", called |-> TRUE]

fetch_company_news(s, ok) ==
    IF ImportExc("CompanyNewsAPI") # NoExc
    THEN [exc |-> ImportExc("CompanyNewsAPI"), value |-> "none",
          called |-> FALSE]
    ELSE IF ImportExc("WebScraper") # NoExc
    THEN [exc |-> ImportExc("WebScraper"), value |-> "none", called |-> FALSE]
    ELSE IF GetExc(s.job_information) # NoExc
            \/ "company" \notin s.job_information.keys
         THEN [exc |-> NoExc, value |-> "empty_default", called |-> FALSE]
         ELSE IF ~ok
         THEN [exc |-> NoExc, value |-> "empty_default", called |-> TRUE]
         ELSE [exc |-> NoExc, value |-> "fetched", called |-> TRUE]

fetch_linkedin_data(s, ok) ==
    IF ImportExc("LinkedInAPI") # NoExc
    THEN [exc |-> ImportExc("LinkedInAPI"), value |-> "none", called |-> FALSE]
    ELSE IF GetExc(s.job_information) # NoExc
            \/ "company" \notin s.job_information.keys
         THEN [exc |-> NoExc, value |-> "empty_default", called |-> FALSE]
         ELSE IF ~ok
         THEN [exc |-> NoExc, value |-> "empty_default", called |-> TRUE]
         ELSE [exc |-> NoExc, value |-> "fetched", called |-> TRUE]

CoreSteps(s) ==
    <<Get(s.sender_details, "technical_skills"),
      Get(s.sender_details, "experience"),
      Get(s.sender_details, "projects"),
      Get(s.job_information, "required_skills"),
      Get(s.job_information, "preferred_skills"),
      Get(s.job_information, "company"),
      Get(s.job_information, "job_title"),
      Get(s.receiver_details, "name"),
      Get(s.receiver_details, "job_title")>>

CoreFields(s) ==
    {<<"sender_skills", GetVal(s.sender_details, "technical_skills")>>,
     <<"sender_experience", GetVal(s.sender_details, "experience")>>,
     <<"sender_projects", GetVal(s.sender_details, "projects")>>,
     <<"job_requirements", GetVal(s.job_information, "required_skills")>>,
     <<"job_preferred", GetVal(s.job_information, "preferred_skills")>>,
     <<"company_name", GetVal(s.job_information, "company")>>,
     <<"job_title", GetVal(s.job_information, "job_title")>>,
     <<"receiver_name", GetVal(s.receiver_details, "name")>>,
     <<"receiver_title", GetVal(s.receiver_details, "job_title")>>}

\* the lookups are awaited one after the other; the first raise ends the try
LookupExc(g, n, l) ==
    IF g.exc # NoExc THEN g.exc
    ELSE IF n.exc # NoExc THEN n.exc ELSE l.exc

\* ExtractContext that builds the core fields for every member of EmailType
ExtractContext_AllTypes(s, lk) ==
    IF s.email_type \in EmailType
    THEN IF FirstExc(CoreSteps(s)) # NoExc
         THEN [s EXCEPT !.error =
                 Some(Message("Context extraction error",
                              FirstExc(CoreSteps(s))))]
         ELSE [s EXCEPT !.contextual_data = CoreFields(s)]
    ELSE s

ExtractContext(s, lk) ==
    IF s.email_type \in {"personalized", "contextual"}
    THEN IF FirstExc(CoreSteps(s)) # NoExc
         THEN [s EXCEPT !.error =
                 Some(Message("Context extraction error",
                              FirstExc(CoreSteps(s))))]
         ELSE IF s.email_type = "contextual"
         THEN LET g == fetch_github_data(s, lk["github"])
                  n == fetch_company_news(s, lk["news"])
                  l == fetch_linkedin_data(s, lk["linkedin"])
              IN IF LookupExc(g, n, l) # NoExc
                 THEN [s EXCEPT !.error =
                         Some(Message("Context extraction error",
                                      LookupExc(g, n, l)))]
                 ELSE [s EXCEPT !.contextual_data =
                         CoreFields(s) \cup
                         {<<"github_data", g.value>>,
                          <<"company_news", n.value>>,
                          <<"linkedin_data", l.value>>}]
         ELSE [s EXCEPT !.contextual_data = CoreFields(s)]
    ELSE s

Lookups == {"github", "news", "linkedin"}

\* the lookups whose external call was issued, in the order of issue: the
\* dict literal awaits each coroutine before it evaluates the next entry
LookupTrace(s, lk) ==
    IF s.email_type = "contextual" /\ FirstExc(CoreSteps(s)) = NoExc
    THEN LET g == fetch_github_data(s, lk["github"])
             n == fetch_company_news(s, lk["news"])
             l == fetch_linkedin_data(s, lk["linkedin"])
         IN (IF g.called THEN <<"github">> ELSE <<>>)
            \o (IF g.exc = NoExc /\ n.called THEN <<"news">> ELSE <<>>)
            \o (IF g.exc = NoExc /\ n.exc = NoExc /\ l.called
                THEN <<"linkedin">> ELSE <<>>)
    ELSE <<>>

\* the most lookups in flight at one time: each await ends before the next
\* coroutine is created
InFlightPeak(issued) == IF issued = <<>> THEN 0 ELSE 1

\* the lookup sources a run may find up or down; only a contextual run has any
AllUp == [x \in Lookups |-> TRUE]
LookupChoices(s) ==
    IF s.email_type = "contextual" THEN [Lookups -> BOOLEAN] ELSE {AllUp}

NoExt == [avail |-> AllUp, issued |-> <<>>, peak |-> 0]

----------------------------------------------------------------------------
(* chain.ainvoke and the generation nodes *)

\* _build_context_message: nine .get calls on job_information, sender_details
BuildContextSteps(s) ==
    <<Get(s.job_information, "job_title"),
      Get(s.job_information, "company"),
      Get(s.job_information, "location"),
      Get(s.job_information, "department"),
      Get(s.job_information, "experience_level"),
      Get(s.sender_details, "name"),
      Get(s.sender_details, "email"),
      Get(s.sender_details, "phone"),
      Get(s.sender_details, "key_accomplishments")>>

\* the argument dict shared by the three body prompts, in source order
CommonArgs(s) ==
    <<Sub(s.receiver_details, "name"),
      Sub(s.receiver_details, "job_title"),
      Sub(s.job_information, "company"),
      Sub(s.sender_details, "name"),
      Sub(s.sender_details, "email"),
      Sub(s.job_information, "job_title")>>

SimpleSteps(s) == BuildContextSteps(s) \o CommonArgs(s)

PersonalizedSteps(s) ==
    BuildContextSteps(s) \o CommonArgs(s) \o
    <<Sub(ContextDict(s), "sender_skills"),
      Sub(ContextDict(s), "sender_experience"),
      Sub(ContextDict(s), "job_requirements"),
      Sub(ContextDict(s), "job_preferred")>>

ContextualSteps(s) ==
    BuildContextSteps(s) \o CommonArgs(s) \o
    <<Sub(ContextDict(s), "github_data"),
      Sub(ContextDict(s), "company_news"),
      Sub(ContextDict(s), "linkedin_data")>>

SubjectSteps(s) ==
    <<Sub(s.job_information, "job_title"),
      Sub(s.job_information, "company"),
      Sub(s.sender_details, "name")>>

\* the backends the chain tries after self.model, in order: __init__ builds
\* self.model alone and attaches no fallback to it
Fallbacks == <<>>

\* the text a fallback backend returns when it answers
FallbackText == <<"a">>

\* await chain.ainvoke({...}): the argument expressions are evaluated first;
\* only if none raises is the model invoked, with outcome out; a failed
\* invocation passes to the fallbacks, of which there are none
Invoke(steps, out, fb) ==
    IF FirstExc(steps) # NoExc
    THEN [exc |-> FirstExc(steps), called |-> FALSE, content |-> <<>>]
    ELSE IF out.ok
    THEN [exc |-> NoExc, called |-> TRUE, content |-> out.content]
    ELSE IF Fallbacks # <<>> /\ fb
    THEN [exc |-> NoExc, called |-> TRUE, content |-> FallbackText]
    ELSE [exc |-> BackendError, called |-> TRUE, content |-> <<>>]

\* Generate whose except branch also stores an empty body
Generate_BlankBody(s, prefix, r) ==
    IF r.exc # NoExc
    THEN [s EXCEPT !.error = Some(Message(prefix, r.exc)),
                   !.generated_email = Some(<<>>)]
    ELSE [s EXCEPT !.generated_email = Some(r.content)]

\* the body of a generate_* node around its chain call
Generate(s, prefix, r) ==
    IF r.exc # NoExc
    THEN [s EXCEPT !.error = Some(Message(prefix, r.exc))]
    ELSE [s EXCEPT !.generated_email = Some(r.content)]

\* FinalizeSkips without the check of error
FinalizeSkips_Never(s) == FALSE

\* if state.get("error"): return state
FinalizeSkips(s) == s.error.some /\ s.error.v # <<>>

\* Finalize that stores the subject as returned, without strip()
Finalize_NoStrip(s, r) ==
    IF FinalizeSkips(s) THEN s
    ELSE IF r.exc # NoExc
    THEN [s EXCEPT !.error = Some(Message("Email finalization error", r.exc))]
    ELSE [s EXCEPT !.email_subject = Some(r.content)]

Finalize(s, r) ==
    IF FinalizeSkips(s) THEN s
    ELSE IF r.exc # NoExc
    THEN [s EXCEPT !.error = Some(Message("Email finalization error", r.exc))]
    ELSE [s EXCEPT !.email_subject = Some(Strip(r.content))]

\* Success decided by the presence of a body instead of the absence of error
Success_HasBody(s) == s.generated_email.some

\* the success flag of the result
Success(s) == ~s.error.some

ResultOf(s) ==
    [keys |-> ResultKeys,
     success |-> Success(s),
     email_subject |-> s.email_subject,
     email_body |-> s.generated_email,
     email_type |-> s.email_type,
     tone |-> s.tone,
     error |-> s.error]

FaultResult(exc) ==
    [NoResult EXCEPT !.keys = {"success", "error"},
                     !.success = FALSE,
                     !.error = Some(Message("Workflow execution error", exc))]

----------------------------------------------------------------------------
(* History bookkeeping *)

\* a node that changed error has recorded a failure
Record(node, s, t) ==
    IF t.error # s.error THEN Append(recorded, [node |-> node, error |-> t.error])
    ELSE recorded

Called(node, r, out) ==
    IF r.called THEN Append(calls, [node |-> node, ok |-> out.ok,
                                    content |-> out.content])
    ELSE calls

----------------------------------------------------------------------------
(* Several calls on one EmailGenerator *)

RunIds == 1..NumRuns

\* what one call of generate_email holds: its arguments, the initial_state it
\* hands to workflow.ainvoke and the executor's position in the graph
NoRun == [pc |-> "idle", request |-> NoRequest, state |-> NoState,
          calls |-> <<>>, raised |-> None, result |-> NoResult,
          avail |-> AllUp, after |-> {}]

\* InitialState that keeps the error of a call that has returned
InitialState_Leftover(rs, req) ==
    IF \E j \in RunIds : rs[j].pc = "done"
    THEN [EmailState(req) EXCEPT !.error =
            rs[CHOOSE j \in RunIds : rs[j].pc = "done"].state.error]
    ELSE EmailState(req)

\* initial_state is built anew from the arguments of the call
InitialState(rs, req) == EmailState(req)

\* RunState with one state kept on the generator for all calls
RunState_Shared(rs, i) == rs[1].state

\* the state the executor passes to the nodes of call i
RunState(rs, i) == rs[i].state

----------------------------------------------------------------------------
(* Keyword arguments of generate_email and the records of the HTTP endpoints *)

\* the keyword arguments a caller passed: None is "left out"
NoKwargs == [email_type |-> None, tone |-> None]

UploadIds == 1..NumUploads
JobIds == 1..NumJobs

\* one request to /parse_resume: the filename of the upload, whether the
\* temporary file was created, tmp_path once it is bound, what parse_resume
\* did ("" while it was not awaited), and the response
NoUpload == [pc |-> "idle", filename |-> <<>>, created |-> FALSE,
             tmp_path |-> None, outcome |-> "", status |-> 0,
             detail |-> <<>>]

\* the fields of a JobPostingData the model looks at
NoData == [job_title |-> "", company |-> "", job_posting_url |-> None,
           job_description |-> <<>>]

\* a response of gemini_client.models.generate_content
NoResponse == [kind |-> "", data |-> NoData]

\* one request to /parse_job_posting: the URL, whether FIRECRAWL_API_KEY is
\* set, what scrape_job_posting returned or raised, the responses of the
\* primary and the fallback extraction and how often each was called, what
\* parse_job_posting returned or raised, and the response
NoJob == [pc |-> "idle", job_url |-> <<>>, key |-> FALSE,
          scraped |-> [exc |-> NoExc, content |-> None],
          primary |-> 0, fallback |-> 0,
          presp |-> NoResponse, fresp |-> NoResponse,
          returned |-> [exc |-> NoExc, kind |-> "", data |-> NoData],
          status |-> 0, detail |-> <<>>]

----------------------------------------------------------------------------
(* Actions *)

Init ==
    /\ pc = "idle"
    /\ request = NoRequest
    /\ state = NoState
    /\ executed = <<>>
    /\ calls = <<>>
    /\ recorded = <<>>
    /\ raised = None
    /\ result = NoResult
    /\ fallbackOk \in BOOLEAN
    /\ ext = NoExt
    /\ runs = [i \in RunIds |-> NoRun]
    /\ kwargs = NoKwargs
    /\ uploads = [u \in UploadIds |-> NoUpload]
    /\ tmpfiles = {}
    /\ jobs = [j \in JobIds |-> NoJob]

\* generate_email up to workflow.ainvoke(initial_state)
generate_email ==
    /\ pc = "idle"
    /\ \E rd \in ReceiverInputs, sd \in SenderInputs, ji \in JobInputs,
          et \in EmailTypeInputs, tn \in Tone :
          /\ request' = [receiver_details |-> rd, sender_details |-> sd,
                         job_information |-> ji, email_type |-> et,
                         tone |-> tn]
          /\ state' = EmailState(request')
          /\ kwargs' = [email_type |-> Some(et), tone |-> Some(tn)]
    /\ pc' = Edge("START")
    /\ UNCHANGED <<executed, calls, recorded, raised, result, fallbackOk, ext,
                   runs, uploads, tmpfiles, jobs>>

validate_input ==
    /\ pc = "validate_input"
    /\ state' = ValidateInput(state)
    /\ recorded' = Record("validate_input", state, state')
    /\ executed' = Append(executed, "validate_input")
    /\ pc' = Edge("validate_input")
    /\ UNCHANGED <<request, calls, raised, result, fallbackOk, ext, runs,
                   kwargs, uploads, tmpfiles, jobs>>

\* extract_context that starts by resetting error
extract_context_ClearsError ==
    /\ pc = "extract_context"
    /\ \E lk \in LookupChoices(state) :
          /\ state' = ExtractContext([state EXCEPT !.error = None], lk)
          /\ ext' = [avail |-> lk,
                     issued |-> LookupTrace(state, lk),
                     peak |-> InFlightPeak(LookupTrace(state, lk))]
    /\ recorded' = Record("extract_context", state, state')
    /\ executed' = Append(executed, "extract_context")
    /\ pc' = Edge("extract_context")
    /\ UNCHANGED <<request, calls, raised, result, fallbackOk, runs,
                   kwargs, uploads, tmpfiles, jobs>>

extract_context ==
    /\ pc = "extract_context"
    /\ \E lk \in LookupChoices(state) :
          /\ state' = ExtractContext(state, lk)
          /\ ext' = [avail |-> lk,
                     issued |-> LookupTrace(state, lk),
                     peak |-> InFlightPeak(LookupTrace(state, lk))]
    /\ recorded' = Record("extract_context", state, state')
    /\ executed' = Append(executed, "extract_context")
    /\ pc' = Edge("extract_context")
    /\ UNCHANGED <<request, calls, raised, result, fallbackOk, runs,
                   kwargs, uploads, tmpfiles, jobs>>

\* the conditional edge: a route outside the path map is a KeyError raised
\* by the executor
route ==
    /\ pc = "route"
    /\ IF route_email_type(state) \in PathKeys
       THEN /\ pc' = PathMap(route_email_type(state))
            /\ UNCHANGED raised
       ELSE /\ pc' = "raised"
            /\ raised' = Some(<<"'", route_email_type(state), "'">>)
    /\ UNCHANGED <<request, state, executed, calls, recorded, result,
                   fallbackOk, ext, runs,
                   kwargs, uploads, tmpfiles, jobs>>

\* a generate_* node that returns at once when error is set
GenerateNode_ChecksError(node, prefix, steps) ==
    /\ pc = node
    /\ \E out \in BackendOutcomes :
          LET r == Invoke(steps, out, fallbackOk)
          IN IF state.error.some
             THEN state' = state /\ calls' = calls
             ELSE /\ state' = Generate(state, prefix, r)
                  /\ calls' = Called(node, r, out)
    /\ recorded' = Record(node, state, state')
    /\ executed' = Append(executed, node)
    /\ pc' = Edge(node)
    /\ UNCHANGED <<request, raised, result, fallbackOk, ext, runs,
                   kwargs, uploads, tmpfiles, jobs>>

GenerateNode(node, prefix, steps) ==
    /\ pc = node
    /\ \E out \in BackendOutcomes :
          LET r == Invoke(steps, out, fallbackOk)
          IN /\ state' = Generate(state, prefix, r)
             /\ calls' = Called(node, r, out)
    /\ recorded' = Record(node, state, state')
    /\ executed' = Append(executed, node)
    /\ pc' = Edge(node)
    /\ UNCHANGED <<request, raised, result, fallbackOk, ext, runs,
                   kwargs, uploads, tmpfiles, jobs>>

generate_simple_email ==
    GenerateNode("generate_simple_email", "Simple email generation error",
                 SimpleSteps(state))

\* generate_personalized_email with the error tag of the simple node
generate_personalized_email_WrongTag ==
    GenerateNode("generate_personalized_email",
                 "Simple email generation error",
                 PersonalizedSteps(state))

generate_personalized_email ==
    GenerateNode("generate_personalized_email",
                 "Personalized email generation error",
                 PersonalizedSteps(state))

generate_contextual_email ==
    GenerateNode("generate_contextual_email",
                 "Contextual email generation error",
                 ContextualSteps(state))

\* finalize_email with an edge back to validate_input instead of END
finalize_email_Loops ==
    /\ pc = "finalize_email"
    /\ \E out \in BackendOutcomes :
          LET r == IF FinalizeSkips(state)
                   THEN [exc |-> NoExc, called |-> FALSE, content |-> <<>>]
                   ELSE Invoke(SubjectSteps(state), out, fallbackOk)
          IN /\ state' = Finalize(state, r)
             /\ calls' = Called("finalize_email", r, out)
    /\ recorded' = Record("finalize_email", state, state')
    /\ executed' = Append(executed, "finalize_email")
    /\ pc' = "validate_input"
    /\ UNCHANGED <<request, raised, result, fallbackOk, ext, runs,
                   kwargs, uploads, tmpfiles, jobs>>

\* the try branch of generate_email: map the final state to the result
finalize_email ==
    /\ pc = "finalize_email"
    /\ \E out \in BackendOutcomes :
          LET r == IF FinalizeSkips(state)
                   THEN [exc |-> NoExc, called |-> FALSE, content |-> <<>>]
                   ELSE Invoke(SubjectSteps(state), out, fallbackOk)
          IN /\ state' = Finalize(state, r)
             /\ calls' = Called("finalize_email", r, out)
    /\ recorded' = Record("finalize_email", state, state')
    /\ executed' = Append(executed, "finalize_email")
    /\ pc' = Edge("finalize_email")
    /\ UNCHANGED <<request, raised, result, fallbackOk, ext, runs,
                   kwargs, uploads, tmpfiles, jobs>>

\* the try branch of generate_email: map the final state to the result
generate_email_return ==
    /\ pc = "END"
    /\ result' = ResultOf(state)
    /\ pc' = "done"
    /\ UNCHANGED <<request, state, executed, calls, recorded, raised,
                   fallbackOk, ext, runs,
                   kwargs, uploads, tmpfiles, jobs>>

\* the except branch of generate_email
generate_email_except ==
    /\ pc = "raised"
    /\ result' = FaultResult(raised.v)
    /\ pc' = "done"
    /\ UNCHANGED <<request, state, executed, calls, recorded, raised,
                   fallbackOk, ext, runs,
                   kwargs, uploads, tmpfiles, jobs>>

Next ==
    \/ generate_email
    \/ validate_input
    \/ extract_context
    \/ route
    \/ generate_simple_email
    \/ generate_personalized_email
    \/ generate_contextual_email
    \/ finalize_email
    \/ generate_email_return
    \/ generate_email_except

Spec == Init /\ [][Next]_vars

\* the steps the event loop takes on its own once generate_email was called:
\* every awaited call returns or raises
Progress ==
    \/ validate_input
    \/ extract_context
    \/ route
    \/ generate_simple_email
    \/ generate_personalized_email
    \/ generate_contextual_email
    \/ finalize_email
    \/ generate_email_return
    \/ generate_email_except

SpecLive == Init /\ [][Next]_vars /\ WF_vars(Progress)

----------------------------------------------------------------------------
(* Calls of generate_email interleaved on one EmailGenerator: the coroutines *)
(* of different calls take turns at every await, that is between any two     *)
(* nodes of the graph.                                                       *)

single == <<pc, request, state, executed, calls, recorded, raised, result,
            fallbackOk, ext, kwargs, uploads, tmpfiles, jobs>>

FullReceiver == Dict({"name", "email", "job_title"})
FullSender == Dict({"name", "email", "phone", "technical_skills",
                    "experience", "projects", "github_username"})
FullJob == Dict({"job_title", "company", "required_skills",
                 "preferred_skills"})

\* the requests the interleaved calls are made with
ParRequests ==
    {[receiver_details |-> FullReceiver, sender_details |-> FullSender,
      job_information |-> FullJob, email_type |-> "simple",
      tone |-> "friendly"],
     [receiver_details |-> FullReceiver, sender_details |-> FullSender,
      job_information |-> FullJob, email_type |-> "personalized",
      tone |-> "formal"],
     [receiver_details |-> Dict({}), sender_details |-> FullSender,
      job_information |-> FullJob, email_type |-> "simple",
      tone |-> "concise"],
     [receiver_details |-> FullReceiver, sender_details |-> FullSender,
      job_information |-> FullJob, email_type |-> "contextual",
      tone |-> "enthusiastic"],
     [receiver_details |-> FullReceiver, sender_details |-> FullSender,
      job_information |-> FullJob, email_type |-> OtherType,
      tone |-> "friendly"]}

ParOutcomes == {[ok |-> FALSE, content |-> <<>>],
                [ok |-> TRUE, content |-> <<" ", "a">>]}

ParLookupChoices(s) ==
    IF s.email_type = "contextual"
    THEN {AllUp, [x \in Lookups |-> FALSE]}
    ELSE {AllUp}

CalledBy(cs, node, r, out) ==
    IF r.called THEN Append(cs, [node |-> node, ok |-> out.ok,
                                 content |-> out.content])
    ELSE cs

generate_email_of(i) ==
    /\ runs[i].pc = "idle"
    /\ \E req \in ParRequests :
          runs' = [runs EXCEPT ![i] =
                     [NoRun EXCEPT !.pc = Edge("START"),
                                   !.request = req,
                                   !.state = InitialState(runs, req),
                                   !.after = {j \in RunIds :
                                                 runs[j].pc = "done"}]]
    /\ UNCHANGED single

validate_input_of(i) ==
    /\ runs[i].pc = "validate_input"
    /\ runs' = [runs EXCEPT ![i].state = ValidateInput(RunState(runs, i)),
                            ![i].pc = Edge("validate_input")]
    /\ UNCHANGED single

extract_context_of(i) ==
    /\ runs[i].pc = "extract_context"
    /\ \E lk \in ParLookupChoices(RunState(runs, i)) :
          runs' = [runs EXCEPT
                     ![i].state = ExtractContext(RunState(runs, i), lk),
                     ![i].avail = lk,
                     ![i].pc = Edge("extract_context")]
    /\ UNCHANGED single

route_of(i) ==
    /\ runs[i].pc = "route"
    /\ IF route_email_type(RunState(runs, i)) \in PathKeys
       THEN runs' = [runs EXCEPT
                       ![i].pc = PathMap(route_email_type(RunState(runs, i)))]
       ELSE runs' = [runs EXCEPT
                       ![i].pc = "raised",
                       ![i].raised =
                          Some(<<"'", route_email_type(RunState(runs, i)),
                                 "'">>)]
    /\ UNCHANGED single

GenerateNodeOf(i, node, prefix, steps) ==
    /\ runs[i].pc = node
    /\ \E out \in ParOutcomes :
          LET r == Invoke(steps, out, fallbackOk)
          IN runs' = [runs EXCEPT
                        ![i].state = Generate(RunState(runs, i), prefix, r),
                        ![i].calls = CalledBy(runs[i].calls, node, r, out),
                        ![i].pc = Edge(node)]
    /\ UNCHANGED single

generate_simple_email_of(i) ==
    GenerateNodeOf(i, "generate_simple_email",
                   "Simple email generation error",
                   SimpleSteps(RunState(runs, i)))

generate_personalized_email_of(i) ==
    GenerateNodeOf(i, "generate_personalized_email",
                   "Personalized email generation error",
                   PersonalizedSteps(RunState(runs, i)))

generate_contextual_email_of(i) ==
    GenerateNodeOf(i, "generate_contextual_email",
                   "Contextual email generation error",
                   ContextualSteps(RunState(runs, i)))

finalize_email_of(i) ==
    /\ runs[i].pc = "finalize_email"
    /\ \E out \in ParOutcomes :
          LET r == IF FinalizeSkips(RunState(runs, i))
                   THEN [exc |-> NoExc, called |-> FALSE, content |-> <<>>]
                   ELSE Invoke(SubjectSteps(RunState(runs, i)), out,
                               fallbackOk)
          IN runs' = [runs EXCEPT
                        ![i].state = Finalize(RunState(runs, i), r),
                        ![i].calls = CalledBy(runs[i].calls,
                                              "finalize_email", r, out),
                        ![i].pc = Edge("finalize_email")]
    /\ UNCHANGED single

generate_email_return_of(i) ==
    /\ runs[i].pc = "END"
    /\ runs' = [runs EXCEPT ![i].result = ResultOf(RunState(runs, i)),
                            ![i].pc = "done"]
    /\ UNCHANGED single

generate_email_except_of(i) ==
    /\ runs[i].pc = "raised"
    /\ runs' = [runs EXCEPT ![i].result = FaultResult(runs[i].raised.v),
                            ![i].pc = "done"]
    /\ UNCHANGED single

NextPar ==
    \/ \E i \in RunIds : generate_email_of(i)
    \/ \E i \in RunIds : validate_input_of(i)
    \/ \E i \in RunIds : extract_context_of(i)
    \/ \E i \in RunIds : route_of(i)
    \/ \E i \in RunIds : generate_simple_email_of(i)
    \/ \E i \in RunIds : generate_personalized_email_of(i)
    \/ \E i \in RunIds : generate_contextual_email_of(i)
    \/ \E i \in RunIds : finalize_email_of(i)
    \/ \E i \in RunIds : generate_email_return_of(i)
    \/ \E i \in RunIds : generate_email_except_of(i)

SpecPar == Init /\ [][NextPar]_vars

----------------------------------------------------------------------------
(* generate_email called with email_type or tone left out *)

KwargsInputs ==
    [email_type : {None} \cup {Some(t) : t \in EmailTypeInputs},
     tone : {None} \cup {Some(t) : t \in Tone}]

\* the defaults of the signature of generate_email
DefaultOf_Formal(param) ==
    IF param = "email_type" THEN "simple" ELSE "formal"

DefaultOf(param) ==
    IF param = "email_type" THEN "simple" ELSE "friendly"

\* the value a parameter is bound to
Bound(kw, param) == IF kw[param].some THEN kw[param].v ELSE DefaultOf(param)

generate_email_defaults ==
    /\ pc = "idle"
    /\ \E rd \in {Dict({}), FullReceiver}, kw \in KwargsInputs :
          /\ request' = [receiver_details |-> rd,
                         sender_details |-> FullSender,
                         job_information |-> FullJob,
                         email_type |-> Bound(kw, "email_type"),
                         tone |-> Bound(kw, "tone")]
          /\ state' = EmailState(request')
          /\ kwargs' = kw
    /\ pc' = Edge("START")
    /\ UNCHANGED <<executed, calls, recorded, raised, result, fallbackOk, ext,
                   runs, uploads, tmpfiles, jobs>>

NextDefaults ==
    \/ generate_email_defaults
    \/ validate_input
    \/ extract_context
    \/ route
    \/ generate_simple_email
    \/ generate_personalized_email
    \/ generate_contextual_email
    \/ finalize_email
    \/ generate_email_return
    \/ generate_email_except

SpecDefaults == Init /\ [][NextDefaults]_vars

----------------------------------------------------------------------------
(* The /parse_resume endpoint (src/src/api.py). Requests are served         *)
(* concurrently by the event loop and take turns at the two awaits of the   *)
(* handler: file.read() and parse_resume(...).                              *)

Filenames ==
    {<<"a", ".", "p", "d", "f">>, <<"A", ".", "P", "D", "F">>,
     <<"a", ".", "t", "x", "t">>, <<"p", "d", "f">>}

\* str.lower() on the characters the filenames are made of
LowerChar(c) ==
    CASE c = "A" -> "a"
      [] c = "P" -> "p"
      [] c = "D" -> "d"
      [] c = "F" -> "f"
      [] OTHER -> c

Lower(t) == [i \in 1..Len(t) |-> LowerChar(t[i])]

\* str.endswith
EndsWith(t, suffix) ==
    /\ Len(suffix) <= Len(t)
    /\ SubSeq(t, Len(t) - Len(suffix) + 1, Len(t)) = suffix

PdfSuffix == <<".", "p", "d", "f">>

\* the name tempfile.NamedTemporaryFile gives the file of upload u
TmpName(u) == <<"tmp", u>>

\* an HTTPException; status 0 is "none raised"
HTTPException(status_code, detail) ==
    [status |-> status_code, detail |-> detail]
NoHTTPException == HTTPException(0, <<>>)

StatusText(n) ==
    CASE n = 400 -> "400"
      [] n = 422 -> "422"
      [] n = 500 -> "500"
      [] OTHER -> "200"

\* str(e) of an HTTPException: f"{status_code}: {detail}"
StrHTTP(h) == <<StatusText(h.status)>> \o h.detail

\* what awaiting main.parse_resume does: it returns a CandidateResumeData,
\* returns None (response.parsed is None), raises a pydantic
\* ValidationError or raises another exception
ParseOutcomes == {"parsed", "none", "ValidationError", "Exception"}

\* the inner try of the handler: what it raises
InnerRaise(out) ==
    CASE out = "ValidationError" ->
            HTTPException(422, <<"validation error">>)
      [] out = "Exception" ->
            HTTPException(500, <<"Resume parsing failed", "parse error">>)
      [] OTHER -> NoHTTPException

\* the outer except of the handler: every Exception that reaches it, an
\* HTTPException of the inner try included, is raised again as status 500
OuterRaise(text) == HTTPException(500, <<"File handling failed">> \o text)

\* the response to a request whose upload was read and written
ResponseAfterParse(out) ==
    IF InnerRaise(out) # NoHTTPException
    THEN OuterRaise(StrHTTP(InnerRaise(out)))
    ELSE IF out = "none"
    THEN OuterRaise(<<"'NoneType' object has no attribute 'model_dump'">>)
    ELSE HTTPException(200, <<"resume_data">>)

\* the handler up to await file.read(): the filename test and the creation
\* of the temporary file
parse_resume_endpoint(u) ==
    /\ uploads[u].pc = "idle"
    /\ \E fn \in Filenames :
          IF ~EndsWith(Lower(fn), PdfSuffix)
          THEN /\ uploads' = [uploads EXCEPT
                                ![u].pc = "responded",
                                ![u].filename = fn,
                                ![u].status = 400,
                                ![u].detail =
                                   <<"Only PDF files are supported.">>]
               /\ UNCHANGED tmpfiles
          ELSE /\ uploads' = [uploads EXCEPT ![u].pc = "reading",
                                             ![u].filename = fn,
                                             ![u].created = TRUE]
               /\ tmpfiles' = tmpfiles \cup {TmpName(u)}
    /\ UNCHANGED <<pc, request, state, executed, calls, recorded, raised,
                   result, fallbackOk, ext, runs, kwargs, jobs>>

\* tmp.write(await file.read()) returns, and tmp_path is bound, or raises
\* and the outer except answers
upload_read(u) ==
    /\ uploads[u].pc = "reading"
    /\ \E ok \in BOOLEAN :
          IF ok
          THEN uploads' = [uploads EXCEPT ![u].pc = "parsing",
                                          ![u].tmp_path = Some(TmpName(u))]
          ELSE uploads' = [uploads EXCEPT
                             ![u].pc = "responded",
                             ![u].status = OuterRaise(<<"read failed">>).status,
                             ![u].detail = OuterRaise(<<"read failed">>).detail]
    /\ UNCHANGED <<pc, request, state, executed, calls, recorded, raised,
                   result, fallbackOk, ext, runs, kwargs, tmpfiles, jobs>>

\* await parse_resume(tmp_path, ...) returns or raises, the finally clause
\* removes tmp_path, and the handler answers
resume_parsed(u) ==
    /\ uploads[u].pc = "parsing"
    /\ \E out \in ParseOutcomes :
          uploads' = [uploads EXCEPT
                        ![u].pc = "responded",
                        ![u].outcome = out,
                        ![u].status = ResponseAfterParse(out).status,
                        ![u].detail = ResponseAfterParse(out).detail]
    /\ tmpfiles' = tmpfiles \ {uploads[u].tmp_path.v}
    /\ UNCHANGED <<pc, request, state, executed, calls, recorded, raised,
                   result, fallbackOk, ext, runs, kwargs, jobs>>

NextResume ==
    \/ \E u \in UploadIds : parse_resume_endpoint(u)
    \/ \E u \in UploadIds : upload_read(u)
    \/ \E u \in UploadIds : resume_parsed(u)

SpecResume == Init /\ [][NextResume]_vars

----------------------------------------------------------------------------
(* The /parse_job_posting endpoint (src/src/api.py) and                     *)
(* JobPostingParser.parse_job_posting (src/src/tasks/job_posting_parser.py) *)

JobUrls == {<<>>, <<" ">>, <<"u">>, <<"v">>}

\* not job_url or not job_url.strip()
Blank(url) == url = <<>> \/ Strip(url) = <<>>

\* what the extraction model may answer with: a record that names a URL of
\* its own
JobData ==
    {[job_title |-> "Engineer", company |-> "Acme",
      job_posting_url |-> Some(<<"w">>), job_description |-> <<"text">>]}

\* generate_content raises, answers with response.parsed set, with
\* response.text a JSON of the schema, with a text that is no such JSON, or
\* with neither
ModelResponses ==
    {[kind |-> k, data |-> NoData] : k \in {"raise", "text_invalid", "empty"}}
    \cup {[kind |-> k, data |-> x] : k \in {"parsed", "text"}, x \in JobData}

\* scrape_job_posting: the markdown, or the exception it logs and raises
ScrapeOutcomes == {"markdown", "no_markdown", "status", "network"}

ScrapeJobPosting(out) ==
    CASE out = "markdown" ->
            [exc |-> NoExc, content |-> Some(<<"markdown">>)]
      [] out = "no_markdown" ->
            [exc |-> <<"Failed to scrape job data", "Unknown error">>,
             content |-> None]
      [] out = "status" ->
            [exc |-> <<"Firecrawl API request failed with status">>,
             content |-> None]
      [] out = "network" ->
            [exc |-> <<"connection error">>, content |-> None]

ExtractError == "Failed to extract structured data from Gemini response"

\* the try block after the scrape: the primary extraction
PrimaryExtract(scraped, p) ==
    IF scraped.exc # NoExc
    THEN [exc |-> scraped.exc, data |-> NoData, called |-> 0]
    ELSE CASE p.kind = "raise" ->
                 [exc |-> BackendError, data |-> NoData, called |-> 1]
           [] p.kind \in {"parsed", "text"} ->
                 [exc |-> NoExc, data |-> p.data, called |-> 1]
           [] p.kind = "text_invalid" ->
                 [exc |-> <<ExtractError, "invalid JSON">>,
                  data |-> NoData, called |-> 1]
           [] p.kind = "empty" ->
                 [exc |-> <<ExtractError, "No response data found">>,
                  data |-> NoData, called |-> 1]

\* the try block of the except branch: job_content is unbound when the
\* scrape raised, and the f-string of the prompt raises before the model is
\* called
FallbackExtract(scraped, f) ==
    IF ~scraped.content.some
    THEN [exc |-> <<"cannot access local variable 'job_content'">>,
          data |-> NoData, called |-> 0]
    ELSE CASE f.kind = "raise" ->
                 [exc |-> BackendError, data |-> NoData, called |-> 1]
           [] f.kind \in {"parsed", "text"} ->
                 [exc |-> NoExc, data |-> f.data, called |-> 1]
           [] f.kind = "text_invalid" ->
                 [exc |-> <<"invalid JSON">>, data |-> NoData, called |-> 1]
           [] f.kind = "empty" ->
                 [exc |-> <<"the JSON object must be str, not NoneType">>,
                  data |-> NoData, called |-> 1]

\* parsed_job_data left with the URL the model gave
WithUrl_Kept(data, url) == data

\* parsed_job_data.job_posting_url = job_url
WithUrl(data, url) == [data EXCEPT !.job_posting_url = Some(url)]

\* the record of the last return statement
Placeholder(e) ==
    [job_title |-> "Unknown", company |-> "Unknown",
     job_posting_url |-> None,
     job_description |-> <<"Failed to parse job posting">> \o e]

ParseJobPosting(url, scraped, p, f) ==
    LET a == PrimaryExtract(scraped, p)
        b == FallbackExtract(scraped, f)
    IN IF a.exc = NoExc
       THEN [exc |-> NoExc, kind |-> "primary", data |-> WithUrl(a.data, url)]
       ELSE IF b.exc = NoExc
       THEN [exc |-> NoExc, kind |-> "fallback",
             data |-> WithUrl(b.data, url)]
       ELSE [exc |-> NoExc, kind |-> "placeholder",
             data |-> Placeholder(a.exc)]

\* the handler up to the await inside scrape_job_posting: the URL test and
\* the construction of the JobPostingParser
parse_job_posting_endpoint(j) ==
    /\ jobs[j].pc = "idle"
    /\ \E url \in JobUrls, key \in BOOLEAN :
          jobs' = [jobs EXCEPT ![j] =
             IF Blank(url)
             THEN [NoJob EXCEPT
                     !.pc = "responded", !.job_url = url, !.key = key,
                     !.status = 400,
                     !.detail =
                        <<"Job URL is required and cannot be empty.">>]
             ELSE IF ~key
             THEN [NoJob EXCEPT
                     !.pc = "responded", !.job_url = url, !.key = key,
                     !.status = 400,
                     !.detail = <<"Configuration error",
                                  "Firecrawl API key is required.">>]
             ELSE [NoJob EXCEPT !.pc = "scraping", !.job_url = url,
                                !.key = key]]
    /\ UNCHANGED <<pc, request, state, executed, calls, recorded, raised,
                   result, fallbackOk, ext, runs, kwargs, uploads, tmpfiles>>

\* the request to Firecrawl is answered or fails
scrape_job_posting(j) ==
    /\ jobs[j].pc = "scraping"
    /\ \E out \in ScrapeOutcomes :
          jobs' = [jobs EXCEPT ![j].pc = "parsing",
                               ![j].scraped = ScrapeJobPosting(out)]
    /\ UNCHANGED <<pc, request, state, executed, calls, recorded, raised,
                   result, fallbackOk, ext, runs, kwargs, uploads, tmpfiles>>

\* the rest of parse_job_posting, which awaits nothing, and the answer of
\* the handler
parse_job_posting(j) ==
    /\ jobs[j].pc = "parsing"
    /\ \E p \in ModelResponses, f \in ModelResponses :
          LET a == PrimaryExtract(jobs[j].scraped, p)
              b == FallbackExtract(jobs[j].scraped, f)
              r == ParseJobPosting(jobs[j].job_url, jobs[j].scraped, p, f)
              fb == IF a.exc = NoExc THEN 0 ELSE b.called
          IN jobs' = [jobs EXCEPT
                        ![j].pc = "responded",
                        ![j].primary = a.called,
                        ![j].fallback = fb,
                        ![j].presp = IF a.called = 1 THEN p ELSE NoResponse,
                        ![j].fresp = IF fb = 1 THEN f ELSE NoResponse,
                        ![j].returned = r,
                        ![j].status = IF r.exc = NoExc THEN 200 ELSE 500,
                        ![j].detail =
                           IF r.exc = NoExc THEN <<"job_data">>
                           ELSE <<"Job posting parsing failed">> \o r.exc]
    /\ UNCHANGED <<pc, request, state, executed, calls, recorded, raised,
                   result, fallbackOk, ext, runs, kwargs, uploads, tmpfiles>>

NextJobs ==
    \/ \E j \in JobIds : parse_job_posting_endpoint(j)
    \/ \E j \in JobIds : scrape_job_posting(j)
    \/ \E j \in JobIds : parse_job_posting(j)

SpecJobs == Init /\ [][NextJobs]_vars

----------------------------------------------------------------------------
(* Properties *)

Missing(r) == {f \in {"receiver_details", "sender_details", "job_information"} :
                  ~Truthy(r[f])}

NodesRun == {executed[i] : i \in 1..Len(executed)}

\* C1: in every run whose email_type is a member of EmailType the stages run
\* in the order validate_input, extract_context, one generate_* node,
\* finalize_email, and the run then ends normally; no stage runs twice, and
\* the order is the same when an earlier stage has recorded an error.
C1_StageOrder ==
    /\ Len(executed) <= 4
    /\ \A i \in 1..Len(executed) :
          /\ i = 1 => executed[i] = "validate_input"
          /\ i = 2 => executed[i] = "extract_context"
          /\ i = 3 => executed[i] \in GenerateNodes
          /\ i = 4 => executed[i] = "finalize_email"
    /\ (pc = "done" /\ request.email_type \in EmailType)
          => (Len(executed) = 4 /\ ~raised.some /\ result.keys = ResultKeys)

\* a run that failed validation and still went through all four stages
C1_Witness ==
    /\ pc = "done"
    /\ Len(executed) = 4
    /\ recorded # <<>>
    /\ recorded[1].node = "validate_input"

\* C2: the only generate_* node that runs is the one the path map assigns to
\* the request's email_type, and it has run when the run is done.
C2_MatchingGenerate ==
    /\ \A i \in 1..Len(executed) :
          executed[i] \in GenerateNodes =>
             /\ request.email_type \in EmailType
             /\ executed[i] =
                   (CASE request.email_type = "simple" ->
                            "generate_simple_email"
                      [] request.email_type = "personalized" ->
                            "generate_personalized_email"
                      [] request.email_type = "contextual" ->
                            "generate_contextual_email")
    /\ (pc = "done" /\ request.email_type \in EmailType)
          => Cardinality(NodesRun \cap GenerateNodes) = 1

C2_Witness ==
    /\ pc = "done"
    /\ request.email_type = "personalized"
    /\ "generate_personalized_email" \in NodesRun
    /\ "generate_simple_email" \notin NodesRun

\* C3 (as claimed): whenever a required field of the request is missing or
\* empty, for each of the three email types, the result has success = false
\* and its error names a missing field.
C3_MissingFieldNamed ==
    (pc = "done" /\ request.email_type \in EmailType /\ Missing(request) # {})
       => /\ ~result.success
          /\ result.error.some
          /\ \E f \in Missing(request) :
                \E i \in 1..Len(result.error.v) : result.error.v[i] = f

\* C4: a Generate or Finalize stage that starts with error set leaves
\* generated_email and email_subject as they were.
C4_NoWriteAfterError ==
    [][(pc \in GenerateNodes \cup {"finalize_email"} /\ state.error.some)
          => /\ state'.generated_email = state.generated_email
             /\ state'.email_subject = state.email_subject]_vars

\* both a generate_* node and finalize_email have run with error set on entry
C4_Witness ==
    /\ pc = "END"
    /\ Len(recorded) >= 2
    /\ recorded[1].node = "validate_input"
    /\ recorded[2].node \in GenerateNodes
    /\ state.generated_email = None
    /\ state.email_subject = None

\* the run ended normally and finalize_email found error set on entry
FinalizeSkipped ==
    /\ pc = "done"
    /\ ~raised.some
    /\ recorded # <<>>
    /\ recorded[Len(recorded)].node # "finalize_email"

C5_ResultLaw ==
    FinalizeSkipped
       => /\ result.email_subject = None
          /\ recorded[Len(recorded)].node \in GenerateNodes
          /\ result.error = recorded[Len(recorded)].error
          /\ \A i \in 1..Len(calls) : calls[i].node # "finalize_email"

\* C5: finalize_email entered with error set invokes no model and changes
\* nothing in the state; the result then has no subject and its error is the
\* error the generate_* node recorded.
C5_ShortCircuit ==
    [][/\ (pc = "finalize_email" /\ state.error.some)
            => (state' = state /\ calls' = calls)
       /\ C5_ResultLaw']_vars

C5_Witness ==
    /\ FinalizeSkipped
    /\ recorded[Len(recorded)].node = "generate_simple_email"
    /\ calls # <<>>
    /\ result.error = Some(<<"Simple email generation error",
                             "model invocation failed">>)

\* C6: every returned result has success exactly when it has no error, on the
\* normal return and on the return from the except branch.
C6_SuccessIffNoError ==
    pc = "done" => (result.success <=> ~result.error.some)

C6_Witness ==
    /\ pc = "done"
    /\ raised.some
    /\ ~result.success
    /\ result.error.some

\* C7 (as claimed): a result with success = true has a subject and a body
\* that are non-empty strings.
C7_SuccessHasText ==
    (pc = "done" /\ result.success)
       => /\ result.email_subject.some
          /\ result.email_subject.v # <<>>
          /\ result.email_body.some
          /\ result.email_body.v # <<>>

\* C8 (as claimed): when a stage has recorded a failure the result has
\* success = false, a non-empty error and neither subject nor body.
C8_NoPartialContent ==
    (pc = "done" /\ recorded # <<>>)
       => /\ ~result.success
          /\ result.error.some
          /\ result.error.v # <<>>
          /\ result.email_subject = None
          /\ result.email_body = None

C10_FallbackLaw ==
    (/\ pc = "done"
     /\ calls # <<>>
     /\ \A i \in 1..Len(calls) : ~calls[i].ok
     /\ fallbackOk)
       => result.success


\* the request passes validation and its three details are dicts
ValidRequest ==
    /\ Missing(request) = {}
    /\ request.receiver_details.kind = "dict"
    /\ request.sender_details.kind = "dict"
    /\ request.job_information.kind = "dict"

LastCall(cs) == cs[Len(cs)]

\* the tag each strategy is documented to put on its errors
StrategyTag(node) ==
    CASE node = "generate_simple_email" -> "Simple email generation error"
      [] node = "generate_personalized_email" ->
            "Personalized email generation error"
      [] node = "generate_contextual_email" ->
            "Contextual email generation error"

GenerateStored ==
    /\ Len(calls') = Len(calls) + 1
    /\ LastCall(calls').ok
    /\ LastCall(calls').node = pc
    /\ state'.generated_email = Some(LastCall(calls').content)
    /\ state'.error = state.error

GenerateFailed ==
    /\ state'.error.some
    /\ Head(state'.error.v) = StrategyTag(pc)
    /\ state'.generated_email = None
    /\ (Len(calls') > Len(calls) => ~LastCall(calls').ok)

\* C11: a generate_* node never raises and always hands over to
\* finalize_email; when its model call answers it stores the returned text in
\* generated_email and leaves error as it was; otherwise it sets error to a
\* message that starts with the tag of its own strategy and generated_email
\* stays absent.
C11_GenerateContract ==
    [][(pc \in GenerateNodes)
          => (/\ pc' = "finalize_email"
              /\ raised' = raised
              /\ (GenerateStored \/ GenerateFailed))]_vars

\* the personalized node has failed on its model call and recorded it
C11_Witness ==
    /\ pc = "finalize_email"
    /\ request.email_type = "personalized"
    /\ calls # <<>>
    /\ ~LastCall(calls).ok
    /\ state.error = Some(<<"Personalized email generation error",
                            "model invocation failed">>)
    /\ state.generated_email = None

\* the values contextual_data holds under key k
Bucket(k) == {p[2] : p \in {q \in state.contextual_data : q[1] = k}}

BucketKey(x) ==
    CASE x = "github" -> "github_data"
      [] x = "news" -> "company_news"
      [] x = "linkedin" -> "linkedin_data"

\* the request carries the key lookup x needs
HasLookupKey(x) ==
    IF x = "github" THEN "github_username" \in request.sender_details.keys
    ELSE "company" \in request.job_information.keys

ExtractRecorded ==
    \E i \in 1..Len(recorded) : recorded[i].node = "extract_context"

\* C12 (as claimed): after extract_context of a valid contextual request with
\* exactly one lookup source down, extract_context has set no error, the
\* bucket of that lookup is its empty default and the other two buckets are
\* present.
C12_LookupDegrades ==
    (/\ pc = "route"
     /\ request.email_type = "contextual"
     /\ ValidRequest
     /\ Cardinality({x \in Lookups : ~ext.avail[x]}) = 1)
       => /\ ~ExtractRecorded
          /\ \A x \in Lookups :
                IF ext.avail[x] THEN Bucket(BucketKey(x)) # {}
                ELSE Bucket(BucketKey(x)) = {"empty_default"}

\* C13 (as claimed): after extract_context of a valid contextual request all
\* three buckets are present, and each holds what its own lookup yields: the
\* fetched data when its key is given and its source is up, else its empty
\* default, whatever the other two lookups did.
C13_LookupsIsolated ==
    (/\ pc = "route"
     /\ request.email_type = "contextual"
     /\ ValidRequest)
       => \A x \in Lookups :
             Bucket(BucketKey(x)) =
                {IF HasLookupKey(x) /\ ext.avail[x] THEN "fetched"
                 ELSE "empty_default"}

\* C14: extract_context of a simple request issues no lookup and leaves every
\* field of the state, contextual_data included, as it was.
C14_SimplePassthrough ==
    [][(pc = "extract_context" /\ state.email_type = "simple")
          => /\ state' = state
             /\ state'.contextual_data = {}
             /\ ext'.issued = <<>>]_vars

C14_Witness ==
    /\ pc = "route"
    /\ request.email_type = "simple"
    /\ ValidRequest
    /\ "extract_context" \in NodesRun
    /\ state = EmailState(request)

\* C15 (as claimed): in a valid contextual run whose request carries the keys
\* of all three lookups, the three lookups are in flight at the same time.
C15_LookupsJoint ==
    (/\ pc = "route"
     /\ request.email_type = "contextual"
     /\ ValidRequest
     /\ \A x \in Lookups : HasLookupKey(x))
       => ext.peak = 3


SubjectStored ==
    /\ LastCall(calls').ok
    /\ state'.email_subject = Some(Strip(LastCall(calls').content))
    /\ (state'.email_subject.v # <<>>
          => /\ Head(state'.email_subject.v) # " "
             /\ LastCall(state'.email_subject.v) # " ")
    /\ state'.error = None

SubjectFailed ==
    /\ ~LastCall(calls').ok
    /\ state'.error.some
    /\ Head(state'.error.v) = "Email finalization error"
    /\ state'.email_subject = None

\* C18: finalize_email entered without an error makes exactly one model call;
\* when the call answers, email_subject is the returned text without leading
\* and trailing whitespace and error stays absent; when it fails, error is a
\* finalization error and email_subject stays absent.
C18_FinalizeContract ==
    [][(pc = "finalize_email" /\ ~state.error.some)
          => (/\ Len(calls') = Len(calls) + 1
              /\ LastCall(calls').node = "finalize_email"
              /\ (SubjectStored \/ SubjectFailed))]_vars

\* the subject call returned a text with whitespace around it
C18_Witness ==
    /\ pc = "END"
    /\ calls # <<>>
    /\ LastCall(calls).node = "finalize_email"
    /\ LastCall(calls).content = <<" ", "a">>
    /\ state.email_subject = Some(<<"a">>)
    /\ state.error = None

\* C19 (as claimed): after extract_context of a valid contextual request a
\* lookup has made its external call only if the request carries its key, and
\* a lookup whose key is absent has made no call and its bucket is its empty
\* default.
C19_LookupNeedsKey ==
    (/\ pc = "route"
     /\ request.email_type = "contextual"
     /\ ValidRequest)
       => \A x \in Lookups :
             /\ (\E i \in 1..Len(ext.issued) : ext.issued[i] = x)
                   => HasLookupKey(x)
             /\ ~HasLookupKey(x)
                   => /\ \A i \in 1..Len(ext.issued) : ext.issued[i] # x
                      /\ Bucket(BucketKey(x)) = {"empty_default"}

CoreKeys == {"sender_skills", "sender_experience", "sender_projects",
             "job_requirements", "job_preferred", "company_name",
             "job_title", "receiver_name", "receiver_title"}

\* C20 (as claimed): after extract_context of a valid personalized or
\* contextual request, contextual_data holds the nine core fields and
\* extract_context has recorded no error.
C20_CoreFieldsPresent ==
    (/\ pc = "route"
     /\ request.email_type \in {"personalized", "contextual"}
     /\ ValidRequest)
       => /\ CoreKeys \subseteq {p[1] : p \in state.contextual_data}
          /\ ~ExtractRecorded


\* the answer the backend gave to the call that node made, as recorded in cs
OutcomeFor(cs, node) ==
    IF \E k \in 1..Len(cs) : cs[k].node = node
    THEN LET k == CHOOSE k \in 1..Len(cs) : cs[k].node = node
         IN [ok |-> cs[k].ok, content |-> cs[k].content]
    ELSE [ok |-> FALSE, content |-> <<>>]

GenerateAlone(s, cs, fb) ==
    CASE s.email_type = "simple" ->
            Generate(s, "Simple email generation error",
                     Invoke(SimpleSteps(s),
                            OutcomeFor(cs, "generate_simple_email"), fb))
      [] s.email_type = "personalized" ->
            Generate(s, "Personalized email generation error",
                     Invoke(PersonalizedSteps(s),
                            OutcomeFor(cs, "generate_personalized_email"),
                            fb))
      [] s.email_type = "contextual" ->
            Generate(s, "Contextual email generation error",
                     Invoke(ContextualSteps(s),
                            OutcomeFor(cs, "generate_contextual_email"), fb))

FinalizeAlone(s, cs, fb) ==
    IF s.error.some THEN s
    ELSE Finalize(s, Invoke(SubjectSteps(s),
                            OutcomeFor(cs, "finalize_email"), fb))

\* the final state of a call made alone with request req, lookup sources lk
\* and the backend answers recorded in cs: the nodes applied one after the
\* other to a state of its own
AloneState(req, lk, cs, fb) ==
    FinalizeAlone(
       GenerateAlone(ExtractContext(ValidateInput(EmailState(req)), lk),
                     cs, fb),
       cs, fb)

AloneResult(req, lk, cs, fb) ==
    IF req.email_type \in EmailType
    THEN ResultOf(AloneState(req, lk, cs, fb))
    ELSE FaultResult(<<"'", req.email_type, "'">>)

\* C16: in every interleaving of the calls made on one EmailGenerator a step
\* of one call changes nothing another call holds, and the result each call
\* returns is the result the same request gives when it runs alone with the
\* same backend answers.
C16_RunsIsolated ==
    [][/\ \A i \in RunIds : \A j \in RunIds \ {i} :
             runs'[i] # runs[i] => runs'[j] = runs[j]
       /\ \A i \in RunIds :
             runs'[i].pc = "done"
                => runs'[i].result =
                      AloneResult(runs'[i].request, runs'[i].avail,
                                  runs'[i].calls, fallbackOk)]_vars

\* two calls with different requests overlapped and both returned, the one
\* with an email, the other with its validation failure turned generation
\* error
C16_Witness ==
    /\ runs[1].pc = "done"
    /\ runs[2].pc = "done"
    /\ runs[1].after = {}
    /\ runs[2].after = {}
    /\ runs[1].result.success
    /\ runs[1].result.email_type = "personalized"
    /\ ~runs[2].result.success
    /\ runs[2].request.receiver_details = Dict({})

\* the stub is deterministic: the same node got the same answer in both calls
SameAnswers(i, j) ==
    \A k \in 1..Len(runs[i].calls) : \A l \in 1..Len(runs[j].calls) :
       runs[i].calls[k].node = runs[j].calls[l].node
          => runs[i].calls[k] = runs[j].calls[l]

\* call j was made after call i had returned, with the same request
InSequence(i, j) ==
    /\ runs[i].pc = "done"
    /\ runs[j].pc = "done"
    /\ i \in runs[j].after
    /\ runs[i].request = runs[j].request
    /\ runs[i].avail = runs[j].avail

\* C17: when a call is repeated with the same request after the first has
\* returned and the backend answers the same way, the second call returns
\* the same result (success, error, subject, body) and went the same way:
\* the same model calls and the same final state.
C17_Idempotent ==
    \A i \in RunIds : \A j \in RunIds \ {i} :
       (InSequence(i, j) /\ SameAnswers(i, j))
          => /\ runs[j].result = runs[i].result
             /\ runs[j].calls = runs[i].calls
             /\ runs[j].state = runs[i].state

C17_Witness ==
    /\ InSequence(1, 2)
    /\ SameAnswers(1, 2)
    /\ runs[1].result.success
    /\ runs[2].result.success
    /\ runs[2].result.email_body = Some(<<" ", "a">>)
    /\ runs[2].result.email_subject = Some(<<"a">>)


\* what the caller passed for a parameter, or the documented default
Passed(param, default) ==
    IF kwargs[param].some THEN kwargs[param].v ELSE default

\* C21: when validate_input succeeds, email_type is Simple if the caller left
\* it out and the passed value otherwise, tone is Friendly if left out and
\* the passed value otherwise, contextual_data is the empty mapping, and no
\* other field of the state has changed.
C21_ValidateDefaults ==
    [][(pc = "validate_input" /\ ~state'.error.some)
          => /\ state'.email_type = Passed("email_type", "simple")
             /\ state'.tone = Passed("tone", "friendly")
             /\ state'.contextual_data = {}
             /\ DOMAIN state' = DOMAIN state
             /\ \A k \in DOMAIN state \ {"email_type", "tone",
                                           "contextual_data"} :
                   state'[k] = state[k]]_vars

\* a call that left out both email_type and tone has passed validate_input
C21_Witness ==
    /\ pc = "extract_context"
    /\ kwargs = NoKwargs
    /\ ~state.error.some
    /\ state.email_type = "simple"
    /\ state.tone = "friendly"
    /\ state.contextual_data = {}


\* C22 (as claimed): every result generate_email returns holds the six keys
\* success, email_subject, email_body, email_type, tone and error, and its
\* email_type and tone are those of the request.
C22_ResultComplete ==
    pc = "done"
       => /\ result.keys = ResultKeys
          /\ result.email_type = request.email_type
          /\ result.tone = request.tone

RequestFields == {"receiver_details", "sender_details", "job_information",
                  "email_type", "tone"}

\* C23: from the moment generate_email has built the state to the moment it
\* returns, receiver_details, sender_details, job_information, email_type
\* and tone of the state are the values passed to generate_email.
C23_RequestUnchanged ==
    pc # "idle" => \A f \in RequestFields : state[f] = request[f]

\* a run whose validation failed on a missing receiver has returned and the
\* field is still missing in the state
C23_Witness ==
    /\ pc = "done"
    /\ ~raised.some
    /\ request.receiver_details = NoneV
    /\ state.receiver_details = NoneV
    /\ recorded # <<>>
    /\ recorded[1].node = "validate_input"


NoStageTwice ==
    \A i \in 1..Len(executed) : \A j \in 1..Len(executed) :
       executed[i] = executed[j] => i = j

\* C24: no node of the graph is entered twice in a run, and, every awaited
\* call returning or raising, a run that has started reaches the point where
\* generate_email has returned its result.
C24_Terminates ==
    /\ []NoStageTwice
    /\ (pc # "idle") ~> (pc = "done" /\ result # NoResult)

\* a run went through its four nodes and returned
C24_Witness ==
    /\ pc = "done"
    /\ Len(executed) = 4
    /\ executed[4] = "finalize_email"
    /\ result.success


BodyCalls == {i \in 1..Len(calls) : calls[i].node \in GenerateNodes}
SubjectCalls == {i \in 1..Len(calls) : calls[i].node = "finalize_email"}

\* at most one body call, at most one subject call, the subject call second
\* and after a body call that succeeded
CallShape ==
    /\ Len(calls) <= 2
    /\ Cardinality(BodyCalls) <= 1
    /\ Cardinality(SubjectCalls) <= 1
    /\ \A i \in SubjectCalls :
          /\ i = 2
          /\ calls[1].node \in GenerateNodes
          /\ calls[1].ok
    /\ (pc = "done" /\ result.success)
          => /\ Len(calls) = 2
             /\ calls[1].node \in GenerateNodes
             /\ calls[2].node = "finalize_email"

\* C25: a run invokes the model at most twice, at most once for the body and
\* at most once for the subject; the subject call is made only by
\* finalize_email entered with error absent and after the body call
\* succeeded; a successful run has made exactly the body call and then the
\* subject call.
C25_CallLaw ==
    [][/\ CallShape'
       /\ (pc = "finalize_email" /\ calls' # calls)
             => (~state.error.some /\ state.generated_email.some)]_vars

\* a successful run: the body call of the personalized node, then the
\* subject call
C25_Witness ==
    /\ pc = "done"
    /\ result.success
    /\ Len(calls) = 2
    /\ calls[1].node = "generate_personalized_email"
    /\ calls[2].node = "finalize_email"
    /\ calls[2].ok


\* C26: no step of a run takes error from set to absent, and a run in which
\* some node recorded an error returns a result with success = false and a
\* non-null error.
C26_ErrorMonotonic ==
    [][/\ state.error.some => state'.error.some
       /\ (pc' = "done" /\ (recorded' # <<>> \/ state'.error.some))
             => (~result'.success /\ result'.error.some)]_vars

\* a Contextual run in which extract_context recorded an error has returned
C26_Witness ==
    /\ pc = "done"
    /\ \E i \in 1..Len(recorded) : recorded[i].node = "extract_context"
    /\ ~result.success
    /\ result.error.some


\* the first token of an error message: the tag of the stage that wrote it
TagOf(e) == e.v[1]

\* C27: extract_context and the generate_* nodes do their work also when
\* error is set on entry: extract_context of a Personalized or Contextual
\* request fills contextual_data or writes its own "Context extraction
\* error", a generate_* node invokes the model or writes its own
\* "<Strategy> email generation error" over the error it found;
\* finalize_email leaves an error it finds as it is; and the error of the
\* result that generate_email builds from the final state is the message
\* of the last node that failed.
C27_LastFailureWins ==
    [][/\ (pc = "extract_context" /\ state.error.some
             /\ state.email_type \in {"personalized", "contextual"})
             => \/ (state'.contextual_data # {} /\ state'.error = state.error)
                \/ TagOf(state'.error) = "Context extraction error"
       /\ (pc \in GenerateNodes /\ state.error.some)
             => \/ (calls' # calls /\ state'.error = state.error)
                \/ TagOf(state'.error) = StrategyTag(pc)
       /\ (pc = "finalize_email" /\ state.error.some)
             => state'.error = state.error
       /\ (pc' = "done" /\ ~raised'.some /\ recorded' # <<>>)
             => result'.error = recorded'[Len(recorded')].error]_vars

\* validation, extraction and generation failed one after the other and the
\* result carries the generation error
C27_Witness ==
    /\ pc = "done"
    /\ Len(recorded) = 3
    /\ recorded[1].node = "validate_input"
    /\ recorded[2].node = "extract_context"
    /\ recorded[3].node = "generate_personalized_email"
    /\ TagOf(result.error) = "Personalized email generation error"


\* C28 (as claimed): a ValidationError of parse_resume is answered with
\* status 422, any other exception of parse_resume with status 500 and a
\* detail that starts with "Resume parsing failed", and an upload whose
\* filename does not end in .pdf with status 400, no temporary file having
\* been created and parse_resume not having been awaited.
C28_ResumeErrors ==
    \A u \in UploadIds :
       uploads[u].pc = "responded"
          => /\ uploads[u].outcome = "ValidationError"
                   => uploads[u].status = 422
             /\ uploads[u].outcome = "Exception"
                   => /\ uploads[u].status = 500
                      /\ uploads[u].detail[1] = "Resume parsing failed"
             /\ ~EndsWith(Lower(uploads[u].filename), PdfSuffix)
                   => /\ uploads[u].status = 400
                      /\ ~uploads[u].created
                      /\ uploads[u].outcome = ""

\* C29 (as claimed): when the endpoint has answered an upload, the temporary
\* file it created for that upload exists no more.
C29_TmpRemoved ==
    \A u \in UploadIds :
       (uploads[u].pc = "responded" /\ uploads[u].created)
          => TmpName(u) \notin tmpfiles


ScrapeOk(r) == r.scraped.exc = NoExc
PrimaryOk(r) == ScrapeOk(r) /\ r.presp.kind \in {"parsed", "text"}
FallbackOk(r) == ScrapeOk(r) /\ r.fresp.kind \in {"parsed", "text"}

\* what a model answer looks like once it carries the requested URL
Requested(data, url) ==
    [job_title |-> data.job_title, company |-> data.company,
     job_posting_url |-> Some(url),
     job_description |-> data.job_description]

JobLaw(r) ==
    /\ r.returned.exc = NoExc
    /\ r.status = 200
    /\ r.primary <= 1
    /\ r.fallback <= 1
    /\ PrimaryOk(r)
          => /\ r.returned.kind = "primary"
             /\ r.returned.data = Requested(r.presp.data, r.job_url)
             /\ r.fallback = 0
    /\ (~PrimaryOk(r) /\ FallbackOk(r))
          => /\ r.returned.kind = "fallback"
             /\ r.returned.data = Requested(r.fresp.data, r.job_url)
             /\ r.fallback = 1
    /\ (~PrimaryOk(r) /\ ~FallbackOk(r))
          => /\ r.returned.kind = "placeholder"
             /\ r.returned.data.job_title = "Unknown"
             /\ r.returned.data.company = "Unknown"
    /\ ~ScrapeOk(r)
          => /\ r.returned.kind = "placeholder"
             /\ r.primary = 0
             /\ r.fallback = 0
    /\ r.returned.data.job_title # "Unknown"
          => r.returned.data.job_posting_url = Some(r.job_url)

\* C30: parse_job_posting raises nothing to the handler; it returns the
\* primary parse when the scrape and the primary extraction succeed,
\* otherwise the result of the one fallback extraction, and the placeholder
\* with job_title and company "Unknown" when that fails too or the scrape
\* failed; every record other than the placeholder carries the requested
\* URL as job_posting_url.
C30_JobParseTotal ==
    \A j \in JobIds :
       (jobs[j].pc = "responded" /\ jobs[j].key /\ ~Blank(jobs[j].job_url))
          => JobLaw(jobs[j])

\* the primary extraction failed, the fallback answered with a record that
\* names another URL, and the record returned carries the requested URL
C30_Witness ==
    \E j \in JobIds :
       /\ jobs[j].pc = "responded"
       /\ jobs[j].presp.kind = "empty"
       /\ jobs[j].fresp.kind = "parsed"
       /\ jobs[j].fresp.data.job_posting_url = Some(<<"w">>)
       /\ jobs[j].returned.kind = "fallback"
       /\ jobs[j].returned.data.job_posting_url = Some(<<"u">>)

====
